---- MODULE Spec2Model ----
(***************************************************************************)
(* Model of data_cleaning_project1.py: a linear script that builds a small *)
(* customer-survey table, reports its defects, cleans a copy of it in six  *)
(* steps, prints a summary and saves the cleaned table.                    *)
(*                                                                         *)
(* Encoding of cell values                                                 *)
(*   text      a sequence of one-character strings; "" is << >>            *)
(*   None      a missing text cell (Python None / NaN in an object column) *)
(*   number    Num(x) = <<2*x>>: a one-element sequence holding the value  *)
(*             in halves, so that the median of an even number of integers *)
(*             (a .5 value) is exact; money is counted in cents            *)
(*   NaN       << >>, a missing numeric cell                               *)
(*   date text [parts, sep]: the numeric fields of the string in order and *)
(*             the separator between them ("2024-01-15" is                 *)
(*             [parts |-> <<2024, 1, 15>>, sep |-> "-"])                   *)
(* A table is a sequence of rows; every row carries its pandas index label *)
(* in the field idx, which drop_duplicates() preserves.                    *)
(***************************************************************************)
EXTENDS Integers, Sequences, FiniteSets, TLC

VARIABLES pc, build, df, df_clean, diag, removed_duplicates,
          median_amount, median_age, summary, csv

vars == <<pc, build, df, df_clean, diag, removed_duplicates,
          median_amount, median_age, summary, csv>>

----------------------------------------------------------------------------
(* Bounds of the explored inputs *)

\* longest table of rows with defects
MaxRows == 3
\* longest table of rows with differently spelled dates
MaxDateRows == 2
\* most blanks put on either side of a would_recommend answer
MaxPad == 1

----------------------------------------------------------------------------
(* Python str methods used by the script *)

Lowers == <<"a", "b", "c", "d", "e", "f", "g", "h", "i", "j", "k", "l", "m",
            "n", "o", "p", "q", "r", "s", "t", "u", "v", "w", "x", "y", "z">>
Uppers == <<"A", "B", "C", "D", "E", "F", "G", "H", "I", "J", "K", "L", "M",
            "N", "O", "P", "Q", "R", "S", "T", "U", "V", "W", "X", "Y", "Z">>

IsLower(c) == \E i \in DOMAIN Lowers : Lowers[i] = c
IsUpper(c) == \E i \in DOMAIN Uppers : Uppers[i] = c
IsCased(c) == IsLower(c) \/ IsUpper(c)
IsSpace(c) == c \in {" ", "\t", "\n"}

ToLower(c) == IF IsUpper(c)
              THEN Lowers[CHOOSE i \in DOMAIN Uppers : Uppers[i] = c]
              ELSE c
ToUpper(c) == IF IsLower(c)
              THEN Uppers[CHOOSE i \in DOMAIN Lowers : Lowers[i] = c]
              ELSE c

\* str.lower()
Lower(s) == [i \in 1..Len(s) |-> ToLower(s[i])]

\* str.title(): a cased character is upper-cased when the character before
\* it is not cased, and lower-cased otherwise
Title(s) == [i \in 1..Len(s) |->
               IF IsCased(s[i])
               THEN IF i > 1 /\ IsCased(s[i-1]) THEN ToLower(s[i])
                                                ELSE ToUpper(s[i])
               ELSE s[i]]

\* str.lstrip() / str.rstrip() / str.strip()
RECURSIVE LStrip(_)
LStrip(s) == IF s # << >> /\ IsSpace(Head(s)) THEN LStrip(Tail(s)) ELSE s

RECURSIVE RStrip(_)
RStrip(s) == IF s # << >> /\ IsSpace(s[Len(s)])
             THEN RStrip(SubSeq(s, 1, Len(s) - 1))
             ELSE s

Strip(s) == RStrip(LStrip(s))

----------------------------------------------------------------------------
(* Cell values *)

None == <<"None">>
NaN == << >>
Num(x) == <<2 * x>>
IsNaN(x) == x = NaN

\* the .str accessor leaves missing cells missing
StrStrip(x) == IF x = None THEN None ELSE Strip(x)
StrTitle(x) == IF x = None THEN None ELSE Title(x)
StrLower(x) == IF x = None THEN None ELSE Lower(x)

\* comparisons of a numeric cell with a literal; False on NaN
NumLt(x, k) == ~IsNaN(x) /\ x[1] < 2 * k
NumGt(x, k) == ~IsNaN(x) /\ x[1] > 2 * k
NumGe(x, k) == ~IsNaN(x) /\ x[1] >= 2 * k
NumLe(x, k) == ~IsNaN(x) /\ x[1] <= 2 * k

----------------------------------------------------------------------------
(* Fixed thresholds of the cleaning rules *)

MinAge == 0
MaxAge == 120
MinRating == 1
MaxRating == 5

----------------------------------------------------------------------------
(* Series.median(): NaN cells are skipped; the median of nothing is NaN *)

RECURSIVE Insert(_, _)
Insert(v, s) == IF s = << >> THEN <<v>>
                ELSE IF v <= Head(s) THEN <<v>> \o s
                ELSE <<Head(s)>> \o Insert(v, Tail(s))

RECURSIVE SortValues(_)
SortValues(s) == IF s = << >> THEN << >> ELSE Insert(Head(s), SortValues(Tail(s)))

Median(cells) ==
    LET known == SelectSeq(cells, LAMBDA x : ~IsNaN(x))
        vals == SortValues([i \in 1..Len(known) |-> known[i][1]])
        n == Len(vals)
    IN  IF n = 0 THEN NaN
        ELSE IF n % 2 = 1 THEN <<vals[(n + 1) \div 2]>>
        ELSE <<(vals[n \div 2] + vals[n \div 2 + 1]) \div 2>>

----------------------------------------------------------------------------
(* Tables *)

columns == <<"customer_id", "name", "age", "email", "survey_date",
             "satisfaction_rating", "product_category", "purchase_amount",
             "would_recommend", "comments">>

Columns == {columns[i] : i \in DOMAIN columns}

\* pd.DataFrame(rows, columns=columns): index labels 0, 1, 2, ...
DataFrame(rows) ==
    [i \in 1..Len(rows) |->
        [c \in Columns \cup {"idx"} |-> IF c = "idx" THEN i - 1 ELSE rows[i][c]]]

\* the ten cells of a row, without its index label
Values(r) == [c \in Columns |-> r[c]]

Column(f, c) == [i \in 1..Len(f) |-> f[i][c]]

\* df[mask]: the rows at the positions in keep, in order
RECURSIVE Take(_, _)
Take(f, keep) ==
    IF f = << >> THEN << >>
    ELSE LET n == Len(f)
             front == Take(SubSeq(f, 1, n - 1), keep)
         IN  IF n \in keep THEN Append(front, f[n]) ELSE front

\* isnull() of one cell
IsNull(c, x) == IF c \in {"age", "purchase_amount"} THEN IsNaN(x)
                ELSE IF c = "survey_date" THEN x.sep = "NaT"
                ELSE IF c \in {"customer_id", "satisfaction_rating"} THEN FALSE
                ELSE x = None

\* (mask).sum(): the number of positions in a boolean mask
Count(mask) == Cardinality(mask)

\* df.isnull().sum(): missing cells per column
IsnullSum(f) == [c \in Columns |-> Count({i \in 1..Len(f) : IsNull(c, f[i][c])})]

\* df.isnull().sum().sum()
RECURSIVE SumOver(_, _)
SumOver(g, S) == IF S = {} THEN 0
                 ELSE LET c == CHOOSE x \in S : TRUE
                      IN  g[c] + SumOver(g, S \ {c})

IsnullSumSum(f) == SumOver(IsnullSum(f), Columns)

\* df.duplicated(): position i repeats an earlier row in all ten fields
Duplicated(f) == {i \in 1..Len(f) : \E j \in 1..(i - 1) : Values(f[j]) = Values(f[i])}

\* keeps the last occurrence instead of the first
DropDuplicatesKeepLast(f) ==
    Take(f, {i \in 1..Len(f) :
                ~\E j \in (i + 1)..Len(f) : Values(f[j]) = Values(f[i])})

\* df.drop_duplicates(): keep='first'
DropDuplicates(f) == Take(f, (1..Len(f)) \ Duplicated(f))

----------------------------------------------------------------------------
(* STEP 2: missing values *)

\* Series.fillna(value) on one column; fillna(NaN) changes nothing
Fillna(f, c, value) ==
    [i \in 1..Len(f) |-> IF IsNull(c, f[i][c]) THEN [f[i] EXCEPT ![c] = value]
                                               ELSE f[i]]

MedianAmount(f) == Median(Column(f, "purchase_amount"))

FillMissing(f) ==
    Fillna(Fillna(Fillna(f, "purchase_amount", MedianAmount(f)),
                  "name", <<"U", "n", "k", "n", "o", "w", "n", " ",
                            "C", "u", "s", "t", "o", "m", "e", "r">>),
           "email", <<"n", "o", "_", "e", "m", "a", "i", "l", "@",
                      "u", "n", "k", "n", "o", "w", "n", ".", "c", "o", "m">>)

----------------------------------------------------------------------------
(* STEP 3: invalid ages *)

\* df_clean[(age >= 0) & (age <= 120)]['age']
ValidAges(f) ==
    Column(Take(f, {i \in 1..Len(f) :
                       NumGe(f[i].age, MinAge) /\ NumLe(f[i].age, MaxAge)}), "age")

MedianAge(f) == Median(ValidAges(f))

\* df.loc[mask, c] = value, the mask being the set of positions it selects
LocSet(f, mask, c, value) ==
    [i \in 1..Len(f) |-> IF i \in mask THEN [f[i] EXCEPT ![c] = value] ELSE f[i]]

RepairAge(f) ==
    LET m == MedianAge(f)
        g == LocSet(f, {i \in 1..Len(f) : NumLt(f[i].age, MinAge)}, "age", m)
    IN  LocSet(g, {i \in 1..Len(g) : NumGt(g[i].age, MaxAge)}, "age", m)

----------------------------------------------------------------------------
(* STEP 4: satisfaction ratings *)

\* caps the low side only
ClampRatingLowOnly(f) ==
    LocSet(f, {i \in 1..Len(f) : f[i].satisfaction_rating < MinRating},
           "satisfaction_rating", MinRating)

ClampRating(f) ==
    LET g == LocSet(f, {i \in 1..Len(f) : f[i].satisfaction_rating < MinRating},
                    "satisfaction_rating", MinRating)
    IN  LocSet(g, {i \in 1..Len(g) : g[i].satisfaction_rating > MaxRating},
               "satisfaction_rating", MaxRating)

----------------------------------------------------------------------------
(* STEP 5: text formatting *)

Maybe == <<"M", "a", "y", "b", "e">>
Yes == <<"Y", "e", "s">>
No == <<"N", "o">>

\* compares with the answer as typed, before it is title-cased
RecommendNoTitle(x) == IF StrStrip(x) = Maybe THEN No ELSE StrTitle(StrStrip(x))

\* would_recommend: strip, title-case, then "Maybe" becomes "No"
Recommend(x) ==
    LET t == StrTitle(StrStrip(x))
    IN  IF t = Maybe THEN No ELSE t

StandardizeText(f) ==
    [i \in 1..Len(f) |->
        [f[i] EXCEPT !.name = StrTitle(StrStrip(@)),
                     !.email = StrLower(StrStrip(@)),
                     !.product_category = StrTitle(StrStrip(@)),
                     !.would_recommend = Recommend(@),
                     !.comments = StrStrip(@)]]

----------------------------------------------------------------------------
(* STEP 6: pd.to_datetime(column, errors='coerce')                         *)
(*                                                                         *)
(* What the call does with a column of mixed spellings depends on the      *)
(* pandas release that runs the script, which the repository does not pin: *)
(*   "elementwise"  (pandas 1.x) every cell is parsed on its own, by       *)
(*                  dateutil with dayfirst=False;                          *)
(*   "inferred"     (pandas 2.x) one strptime format is guessed from the   *)
(*                  first cell and applied to the whole column; when no    *)
(*                  format can be guessed the cells are parsed on their    *)
(*                  own as above.                                          *)
(* Either way a cell that cannot be parsed becomes NaT.                    *)

Builds == {"elementwise", "inferred"}

NaT == [parts |-> << >>, sep |-> "NaT"]

\* a token written with four digits is read as a year
IsYearTok(n) == n >= 1000

IsLeap(y) == (y % 4 = 0 /\ y % 100 # 0) \/ y % 400 = 0

DaysIn(y, m) == IF m = 2 THEN (IF IsLeap(y) THEN 29 ELSE 28)
                ELSE IF m \in {4, 6, 9, 11} THEN 30 ELSE 31

\* the Timestamp for year y, month m, day d; NaT when there is no such day
Timestamp(y, m, d) ==
    IF IsYearTok(y) /\ m \in 1..12 /\ d >= 1 /\ d <= DaysIn(y, m)
    THEN [parts |-> <<y, m, d>>, sep |-> "ts"]
    ELSE NaT

\* the order in which dateutil reads three numeric fields (dayfirst=False):
\* year first when the first field is the year; otherwise the year is last
\* and the month comes first unless the first field is above 12
FieldOrder(s) ==
    IF Len(s.parts) # 3 THEN "none"
    ELSE IF IsYearTok(s.parts[1]) THEN "YMD"
    ELSE IF ~IsYearTok(s.parts[3]) THEN "none"
    ELSE IF s.parts[1] > 12 THEN "DMY"
    ELSE "MDY"

\* the fields of s read in the given order
ReadAs(s, order) ==
    IF Len(s.parts) # 3 THEN NaT
    ELSE IF order = "YMD" THEN Timestamp(s.parts[1], s.parts[2], s.parts[3])
    ELSE IF order = "MDY" THEN Timestamp(s.parts[3], s.parts[1], s.parts[2])
    ELSE IF order = "DMY" THEN Timestamp(s.parts[3], s.parts[2], s.parts[1])
    ELSE NaT

\* one cell parsed on its own
ParseElement(s) == ReadAs(s, FieldOrder(s))

\* the strptime format guessed from one cell, "none" when it is no date
GuessFormat(s) ==
    IF ParseElement(s) = NaT THEN [order |-> "none", sep |-> ""]
    ELSE [order |-> FieldOrder(s), sep |-> s.sep]

\* strptime of one cell under a format
Strptime(s, fmt) == IF s.sep = fmt.sep THEN ReadAs(s, fmt.order) ELSE NaT

ToDatetime(b, col) ==
    IF col = << >> THEN col
    ELSE LET fmt == GuessFormat(col[1])
         IN  IF b = "elementwise" \/ fmt.order = "none"
             THEN [i \in 1..Len(col) |-> ParseElement(col[i])]
             ELSE [i \in 1..Len(col) |-> Strptime(col[i], fmt)]

StandardizeDates(b, f) ==
    LET parsed == ToDatetime(b, Column(f, "survey_date"))
    IN  [i \in 1..Len(f) |-> [f[i] EXCEPT !.survey_date = parsed[i]]]

----------------------------------------------------------------------------
(* STEP 8: to_csv(index=False): the ten columns without the index label;   *)
(* a Timestamp is written as YYYY-MM-DD and a missing cell as the empty    *)
(* string                                                                  *)

IsoFormat(ts) == IF ts = NaT THEN [parts |-> << >>, sep |-> ""]
                 ELSE [parts |-> ts.parts, sep |-> "-"]

ToCsv(f) ==
    [i \in 1..Len(f) |->
        [c \in Columns |->
            IF c = "survey_date" THEN IsoFormat(f[i][c])
            ELSE IF IsNull(c, f[i][c]) THEN << >>
            ELSE f[i][c]]]

----------------------------------------------------------------------------
(* The sample survey data; purchase amounts are in cents *)

\* one line of data, its cells in the order of columns
Row(id, name, age, email, date, rating, category, amount, recommend, comments) ==
    [customer_id |-> id, name |-> name, age |-> age, email |-> email,
     survey_date |-> date, satisfaction_rating |-> rating,
     product_category |-> category, purchase_amount |-> amount,
     would_recommend |-> recommend, comments |-> comments]

data == <<
    \* [1, 'John Smith', 25, 'john@email.com', '2024-01-15', 5, 'electronics', 299.99, 'Yes', 'Great product!']
    Row(1, <<"J", "o", "h", "n", " ", "S", "m", "i", "t", "h">>,
        Num(25), <<"j", "o", "h", "n", "@", "e", "m", "a", "i", "l", ".", "c", "o", "m">>,
        [parts |-> <<2024, 1, 15>>, sep |-> "-"], 5,
        <<"e", "l", "e", "c", "t", "r", "o", "n", "i", "c", "s">>, Num(29999),
        <<"Y", "e", "s">>,
        <<"G", "r", "e", "a", "t", " ", "p", "r", "o", "d", "u", "c", "t", "!">>),
    \* [2, ' jane doe ', 150, 'JANE@EMAIL.COM', '01/16/2024', 4, 'CLOTHING', 89.50, 'yes', '  Good quality  ']
    Row(2, <<" ", "j", "a", "n", "e", " ", "d", "o", "e", " ">>,
        Num(150), <<"J", "A", "N", "E", "@", "E", "M", "A", "I", "L", ".", "C", "O", "M">>,
        [parts |-> <<1, 16, 2024>>, sep |-> "/"], 4,
        <<"C", "L", "O", "T", "H", "I", "N", "G">>, Num(8950),
        <<"y", "e", "s">>,
        <<" ", " ", "G", "o", "o", "d", " ", "q", "u", "a", "l", "i", "t", "y", " ", " ">>),
    \* [1, 'John Smith', 25, 'john@email.com', '2024-01-15', 5, 'Electronics', 299.99, 'Yes', 'Great product!']
    Row(1, <<"J", "o", "h", "n", " ", "S", "m", "i", "t", "h">>,
        Num(25), <<"j", "o", "h", "n", "@", "e", "m", "a", "i", "l", ".", "c", "o", "m">>,
        [parts |-> <<2024, 1, 15>>, sep |-> "-"], 5,
        <<"E", "l", "e", "c", "t", "r", "o", "n", "i", "c", "s">>, Num(29999),
        <<"Y", "e", "s">>,
        <<"G", "r", "e", "a", "t", " ", "p", "r", "o", "d", "u", "c", "t", "!">>),
    \* [3, 'Bob Johnson', 30, '', '2024-01-17', 3, 'Books', 25.00, 'Maybe', '']
    Row(3, <<"B", "o", "b", " ", "J", "o", "h", "n", "s", "o", "n">>,
        Num(30), << >>,
        [parts |-> <<2024, 1, 17>>, sep |-> "-"], 3,
        <<"B", "o", "o", "k", "s">>, Num(2500),
        <<"M", "a", "y", "b", "e">>,
        << >>),
    \* [4, 'Alice Brown', -5, 'alice@email.com', '17-01-2024', 6, 'home & garden', 450.00, 'NO', 'Poor delivery']
    Row(4, <<"A", "l", "i", "c", "e", " ", "B", "r", "o", "w", "n">>,
        Num(0 - 5), <<"a", "l", "i", "c", "e", "@", "e", "m", "a", "i", "l", ".", "c", "o", "m">>,
        [parts |-> <<17, 1, 2024>>, sep |-> "-"], 6,
        <<"h", "o", "m", "e", " ", "&", " ", "g", "a", "r", "d", "e", "n">>, Num(45000),
        <<"N", "O">>,
        <<"P", "o", "o", "r", " ", "d", "e", "l", "i", "v", "e", "r", "y">>),
    \* [5, '', 35, 'test@email.com', '2024/01/18', 2, 'Clothing', None, 'Yes', '']
    Row(5, << >>,
        Num(35), <<"t", "e", "s", "t", "@", "e", "m", "a", "i", "l", ".", "c", "o", "m">>,
        [parts |-> <<2024, 1, 18>>, sep |-> "/"], 2,
        <<"C", "l", "o", "t", "h", "i", "n", "g">>, NaN,
        <<"Y", "e", "s">>,
        << >>)
>>

----------------------------------------------------------------------------
(* Input tables explored: the sample itself, short tables of sample rows   *)
(* and of variants of them with more defects, one-row tables whose         *)
(* would_recommend answer is spelled in every casing and padding, and      *)
(* short tables whose survey dates are spelled in the four formats         *)

RECURSIVE SeqsUpTo(_, _)
SeqsUpTo(S, n) ==
    IF n = 0 THEN {<< >>}
    ELSE LET shorter == SeqsUpTo(S, n - 1)
         IN  shorter \cup {Append(s, x) : s \in shorter, x \in S}

NonEmptySeqs(S, n) == SeqsUpTo(S, n) \ {<< >>}

DefectRows ==
    {data[1], data[2], data[3], data[4], data[5], data[6],
     [data[6] EXCEPT !.name = None, !.email = None, !.satisfaction_rating = 0],
     [data[5] EXCEPT !.purchase_amount = NaN, !.age = Num(121)]}

\* w in every mix of upper and lower case
RECURSIVE Casings(_)
Casings(w) ==
    IF w = << >> THEN {<< >>}
    ELSE {<<c>> \o rest : c \in {ToLower(Head(w)), ToUpper(Head(w))},
                          rest \in Casings(Tail(w))}

Blanks(n) == [i \in 1..n |-> " "]

Answers == {Maybe, Yes, No}

AnswerSpellings ==
    {Blanks(l) \o s \o Blanks(r) :
        l \in 0..MaxPad, r \in 0..MaxPad, s \in UNION {Casings(w) : w \in Answers}}

AnswerRows == {[data[4] EXCEPT !.would_recommend = a] : a \in AnswerSpellings}

CalendarDates == {<<2024, 1, 5>>, <<2024, 1, 17>>, <<2024, 2, 29>>}

Formats == {"iso", "us_slash", "ymd_slash", "dmy_dash"}

\* the date ymd written in one of the four formats
Spell(ymd, fmt) ==
    IF fmt = "iso" THEN [parts |-> ymd, sep |-> "-"]
    ELSE IF fmt = "us_slash" THEN [parts |-> <<ymd[2], ymd[3], ymd[1]>>, sep |-> "/"]
    ELSE IF fmt = "ymd_slash" THEN [parts |-> ymd, sep |-> "/"]
    ELSE [parts |-> <<ymd[3], ymd[2], ymd[1]>>, sep |-> "-"]

\* "not a date" and "2024-13-45"
Unrecognized == {[parts |-> << >>, sep |-> " "],
                 [parts |-> <<2024, 13, 45>>, sep |-> "-"]}

DateStrings == {Spell(d, fmt) : d \in CalendarDates, fmt \in Formats} \cup Unrecognized

DateRows == {[data[1] EXCEPT !.survey_date = s] : s \in DateStrings}

Inputs == {data}
          \cup NonEmptySeqs(DefectRows, MaxRows)
          \cup {<<r>> : r \in AnswerRows}
          \cup NonEmptySeqs(DateRows, MaxDateRows)

----------------------------------------------------------------------------
(* Reports *)

NegativeAges(f) == Count({i \in 1..Len(f) : NumLt(f[i].age, MinAge)})
UnrealisticAges(f) == Count({i \in 1..Len(f) : NumGt(f[i].age, MaxAge)})
InvalidAges(f) ==
    Count({i \in 1..Len(f) : NumLt(f[i].age, MinAge) \/ NumGt(f[i].age, MaxAge)})
InvalidRatings(f) ==
    Count({i \in 1..Len(f) : f[i].satisfaction_rating < MinRating
                              \/ f[i].satisfaction_rating > MaxRating})

\* the data quality assessment printed before cleaning
Assessment(raw) ==
    [missing |-> IsnullSum(raw),
     duplicates |-> Cardinality(Duplicated(raw)),
     negative_ages |-> NegativeAges(raw),
     unrealistic_ages |-> UnrealisticAges(raw),
     invalid_ratings |-> InvalidRatings(raw),
     categories |-> {raw[i].product_category : i \in 1..Len(raw)}]

\* counts the defects left in the cleaned table instead
ResultsOfClean(raw, clean) ==
    [rows_before |-> Len(raw),
     rows_after |-> Len(clean),
     missing |-> IsnullSumSum(clean),
     invalid_ages |-> InvalidAges(clean),
     invalid_ratings |-> InvalidRatings(clean)]

\* the data cleaning results printed after cleaning
Results(raw, clean) ==
    [rows_before |-> Len(raw),
     rows_after |-> Len(clean),
     missing |-> IsnullSumSum(raw),
     invalid_ages |-> InvalidAges(raw),
     invalid_ratings |-> InvalidRatings(raw)]

----------------------------------------------------------------------------
(* The script, one action per block *)

Init ==
    /\ pc = "assess"
    /\ build \in Builds
    /\ df \in {DataFrame(rows) : rows \in Inputs}
    /\ df_clean = << >>
    /\ diag = [missing |-> [c \in Columns |-> 0], duplicates |-> 0,
               negative_ages |-> 0, unrealistic_ages |-> 0,
               invalid_ratings |-> 0, categories |-> {}]
    /\ removed_duplicates = 0
    /\ median_amount = NaN
    /\ median_age = NaN
    /\ summary = [rows_before |-> 0, rows_after |-> 0, missing |-> 0,
                  invalid_ages |-> 0, invalid_ratings |-> 0]
    /\ csv = << >>

Assess ==
    /\ pc = "assess"
    /\ diag' = Assessment(df)
    /\ pc' = "copy"
    /\ UNCHANGED <<build, df, df_clean, removed_duplicates, median_amount,
                   median_age, summary, csv>>

Copy ==
    /\ pc = "copy"
    /\ df_clean' = df
    /\ pc' = "step1"
    /\ UNCHANGED <<build, df, diag, removed_duplicates, median_amount,
                   median_age, summary, csv>>

Step1 ==
    /\ pc = "step1"
    /\ df_clean' = DropDuplicates(df_clean)
    /\ removed_duplicates' = Len(df_clean) - Len(df_clean')
    /\ pc' = "step2"
    /\ UNCHANGED <<build, df, diag, median_amount, median_age, summary, csv>>

Step2 ==
    /\ pc = "step2"
    /\ median_amount' = MedianAmount(df_clean)
    /\ df_clean' = FillMissing(df_clean)
    /\ pc' = "step3"
    /\ UNCHANGED <<build, df, diag, removed_duplicates, median_age, summary, csv>>

Step3 ==
    /\ pc = "step3"
    /\ median_age' = MedianAge(df_clean)
    /\ df_clean' = RepairAge(df_clean)
    /\ pc' = "step4"
    /\ UNCHANGED <<build, df, diag, removed_duplicates, median_amount, summary, csv>>

Step4 ==
    /\ pc = "step4"
    /\ df_clean' = ClampRating(df_clean)
    /\ pc' = "step5"
    /\ UNCHANGED <<build, df, diag, removed_duplicates, median_amount,
                   median_age, summary, csv>>

Step5 ==
    /\ pc = "step5"
    /\ df_clean' = StandardizeText(df_clean)
    /\ pc' = "step6"
    /\ UNCHANGED <<build, df, diag, removed_duplicates, median_amount,
                   median_age, summary, csv>>

Step6 ==
    /\ pc = "step6"
    /\ df_clean' = StandardizeDates(build, df_clean)
    /\ pc' = "step7"
    /\ UNCHANGED <<build, df, diag, removed_duplicates, median_amount,
                   median_age, summary, csv>>

Step7 ==
    /\ pc = "step7"
    /\ summary' = Results(df, df_clean)
    /\ pc' = "step8"
    /\ UNCHANGED <<build, df, df_clean, diag, removed_duplicates, median_amount,
                   median_age, csv>>

Step8 ==
    /\ pc = "step8"
    /\ csv' = ToCsv(df_clean)
    /\ pc' = "done"
    /\ UNCHANGED <<build, df, df_clean, diag, removed_duplicates, median_amount,
                   median_age, summary>>

Next == \/ Assess \/ Copy \/ Step1 \/ Step2 \/ Step3 \/ Step4 \/ Step5
        \/ Step6 \/ Step7 \/ Step8

Spec == Init /\ [][Next]_vars

----------------------------------------------------------------------------
(* Properties *)

Done == pc = "done"
OnSample == df = DataFrame(data)

Positions(f) == 1..Len(f)
IdxOf(f) == {f[i].idx : i \in Positions(f)}

\* the raw row a cleaned row comes from
Raw(r) == df[CHOOSE i \in Positions(df) : df[i].idx = r.idx]

\* the raw positions holding the same ten cells as position i
SameAs(i) == {j \in Positions(df) : Values(df[j]) = Values(df[i])}

First(S) == CHOOSE i \in S : \A j \in S : i <= j

\* C1: when the pipeline has finished, of all raw rows that are equal in
\* all ten fields exactly one is in the cleaned table, and it is the first
\* of them; no index label occurs twice in the cleaned table.
C1_Deduplication ==
    Done =>
        /\ Cardinality(IdxOf(df_clean)) = Len(df_clean)
        /\ \A i \in Positions(df) :
              IdxOf(df_clean) \cap {df[j].idx : j \in SameAs(i)}
                  = {df[First(SameAs(i))].idx}

\* a finished run on three rows whose first and last are identical and
\* whose middle one differs: the last has been dropped
C1_Witness ==
    /\ Done
    /\ Len(df) = 3
    /\ Values(df[1]) = Values(df[3])
    /\ Values(df[1]) # Values(df[2])
    /\ IdxOf(df_clean) = {0, 1}

\* C2: on the six sample rows the cleaned table has exactly 5 rows:
\* deduplication removes exactly one row and no later step changes the
\* number of rows.
C2_SampleRowCount ==
    (OnSample /\ pc \notin {"assess", "copy", "step1"}) =>
        /\ removed_duplicates = 1
        /\ Len(df_clean) = 5
        /\ (Done => Len(csv) = 5)

InRange(age) == NumGe(age, MinAge) /\ NumLe(age, MaxAge)

\* the ages in [0,120] among the rows that survive deduplication
KeptValidAges ==
    Column(Take(df, {i \in Positions(df) :
                        df[i].idx \in IdxOf(df_clean) /\ InRange(df[i].age)}), "age")

\* C3: when the pipeline has finished every cleaned row has an age in
\* [0,120]; an age that was in range is unchanged and an age that was out
\* of range is the median of the in-range ages.
C3_AgeRepair ==
    Done =>
        \A i \in Positions(df_clean) :
            LET r == df_clean[i]
            IN  /\ InRange(r.age)
                /\ InRange(Raw(r).age) => r.age = Raw(r).age
                /\ ~InRange(Raw(r).age) => r.age = Median(KeptValidAges)

\* C4: on the six sample rows the median of the valid ages is taken over
\* {25, 30, 35} and is 30, and the row whose raw age is -5 has age 30 in
\* the cleaned table.
C4_SampleAge ==
    (OnSample /\ Done) =>
        /\ KeptValidAges = <<Num(25), Num(30), Num(35)>>
        /\ median_age = Num(30)
        /\ \A i \in Positions(df_clean) :
              Raw(df_clean[i]).age = Num(0 - 5) => df_clean[i].age = Num(30)

\* the purchase amounts known among the rows that survive deduplication
KeptKnownAmounts ==
    Column(Take(df, {i \in Positions(df) :
                        df[i].idx \in IdxOf(df_clean)
                        /\ ~IsNaN(df[i].purchase_amount)}), "purchase_amount")

\* C5: every missing purchase_amount is replaced by the median of the known
\* amounts of the deduplicated table; on the six sample rows that is the
\* median of four known amounts and no cleaned amount is missing.
C5_AmountImputation ==
    Done =>
        /\ \A i \in Positions(df_clean) :
              IsNaN(Raw(df_clean[i]).purchase_amount)
                  => df_clean[i].purchase_amount = Median(KeptKnownAmounts)
        /\ OnSample =>
              /\ Len(KeptKnownAmounts) = 4
              /\ median_amount = Median(<<Num(29999), Num(8950), Num(2500), Num(45000)>>)
              /\ \A i \in Positions(df_clean) : ~IsNaN(df_clean[i].purchase_amount)

\* C6: when the pipeline has finished, a survey date written in any of the
\* four supported formats has become the ISO date of that calendar day,
\* whatever the other rows of the column hold, and a value in none of the
\* formats has become the unparsed marker.
C6_DateNormalization ==
    Done =>
        \A i \in Positions(df_clean) :
            LET s == Raw(df_clean[i]).survey_date
            IN  /\ \A d \in CalendarDates, fmt \in Formats :
                      s = Spell(d, fmt) =>
                          /\ df_clean[i].survey_date = Timestamp(d[1], d[2], d[3])
                          /\ csv[i].survey_date = Spell(d, "iso")
                /\ s \in Unrecognized => df_clean[i].survey_date = NaT

UnknownCustomer == <<"U", "n", "k", "n", "o", "w", "n", " ",
                     "C", "u", "s", "t", "o", "m", "e", "r">>
NoEmail == <<"n", "o", "_", "e", "m", "a", "i", "l", "@",
             "u", "n", "k", "n", "o", "w", "n", ".", "c", "o", "m">>

\* C7: when the pipeline has finished, a name that was missing is
\* "Unknown Customer" and an email that was missing is
\* "no_email@unknown.com"; in the cleaned sample no name and no email is
\* missing or empty.
C7_TextImputation ==
    Done =>
        \A i \in Positions(df_clean) :
            LET r == df_clean[i]
            IN  /\ Raw(r).name = None => r.name = UnknownCustomer
                /\ Raw(r).email = None => r.email = NoEmail
                /\ OnSample => /\ r.name \notin {None, << >>}
                               /\ r.email \notin {None, << >>}

\* C8: when the pipeline has finished every cleaned rating is in [1,5]: a
\* rating below 1 has become 1, a rating above 5 has become 5 and a rating
\* in [1,5] is unchanged.
C8_RatingClamp ==
    Done =>
        \A i \in Positions(df_clean) :
            LET new == df_clean[i].satisfaction_rating
                old == Raw(df_clean[i]).satisfaction_rating
            IN  /\ new >= 1 /\ new <= 5
                /\ old < 1 => new = 1
                /\ old > 5 => new = 5
                /\ (old >= 1 /\ old <= 5) => new = old

\* a finished run whose raw table holds a rating below 1 and one above 5
C8_Witness ==
    /\ Done
    /\ \E i, j \in Positions(df_clean) :
          /\ Raw(df_clean[i]).satisfaction_rating < 1
          /\ Raw(df_clean[j]).satisfaction_rating > 5
          /\ df_clean[i].satisfaction_rating = 1
          /\ df_clean[j].satisfaction_rating = 5

\* w in any casing with up to MaxPad blanks on either side
Padded(w) == {Blanks(l) \o s \o Blanks(r) :
                 l \in 0..MaxPad, r \in 0..MaxPad, s \in Casings(w)}

\* C9: when the pipeline has finished no cleaned row answers "Maybe"; a
\* raw "Maybe" in any casing and padding has become "No", a raw "Yes" has
\* become "Yes" and a raw "No" has become "No".
C9_RecommendMapping ==
    Done =>
        \A i \in Positions(df_clean) :
            LET new == df_clean[i].would_recommend
                old == Raw(df_clean[i]).would_recommend
            IN  /\ new # Maybe
                /\ old \in Padded(Maybe) => new = No
                /\ old \in Padded(Yes) => new = Yes
                /\ old \in Padded(No) => new = No

\* a finished run on the answer " mAyBE" (padded, mixed casing)
C9_Witness ==
    /\ Done
    /\ \E i \in Positions(df_clean) :
          /\ Raw(df_clean[i]).would_recommend = <<" ", "m", "A", "y", "B", "E">>
          /\ df_clean[i].would_recommend = No

\* C10: no step changes the raw table, and the missing-value, invalid-age
\* and invalid-rating counts of the summary equal the counts of the
\* assessment made before cleaning.
C10_RawUntouched ==
    /\ [][df' = df]_vars
    /\ [](pc \in {"step8", "done"} =>
             /\ summary.missing = SumOver(diag.missing, Columns)
             /\ summary.invalid_ages = diag.negative_ages + diag.unrealistic_ages
             /\ summary.invalid_ratings = diag.invalid_ratings
             /\ summary.rows_before = Len(df))

\* a finished run that repaired a missing amount, an invalid age and an
\* invalid rating in the copy and still reports them
C10_Witness ==
    /\ Done
    /\ summary.missing > 0 /\ IsnullSumSum(df_clean) = 0
    /\ summary.invalid_ages > 0 /\ InvalidAges(df_clean) = 0
    /\ summary.invalid_ratings > 0 /\ InvalidRatings(df_clean) = 0

====
